---- MODULE Spec2Model ----
(***************************************************************************)
(* Model of the send-reminders edge function                               *)
(* (supabase/functions/send-reminders/index.ts): the push-notification     *)
(* reminder dispatcher of the mental-health tracker.                       *)
(*                                                                         *)
(* Time is counted in whole hours since an epoch (UTC).  Time zones are    *)
(* fixed UTC offsets (no DST inside the modelled window).  Keys, tokens    *)
(* and ciphertexts are symbolic terms.                                     *)
(*                                                                         *)
(* Under Spec the environment is sequential: the clock advances and the    *)
(* store is what it is between invocations only, so every clock reading    *)
(* and every query of one invocation sees the same instant and the same    *)
(* rows.  The handler's steps are its awaits: the code between two awaits  *)
(* runs as one action.  prev, prevRun, runAt and messages are history      *)
(* variables; record says which of the histories that cost states are      *)
(* kept: none under Spec, the previous invocation under SpecRepeated, the  *)
(* requests given to fetch under SpecPush.                                 *)
(*                                                                         *)
(* SpecRoundTrip applies encryptPayload on its own.  SpecReminders and     *)
(* SpecEntries add the client (App.jsx): its subscribe, unsubscribe and    *)
(* save handlers writing the tables the function reads.                    *)
(*                                                                         *)
(* SpecClock lets the clock advance between the clock readings of one      *)
(* invocation; SpecSchedule keeps, for the hourly schedule, the sends      *)
(* attempted per user and date; SpecSave lets a save land while an         *)
(* invocation is in flight; SpecDay runs the client and the function over  *)
(* the hours in which their zones' dates differ from the UTC date.         *)
(* SpecSession is the client's sign-in, load and sign-out;                 *)
(* SpecNotifications its notification flag against the stored              *)
(* subscriptions; SpecStreak applies getStreak on its own.                 *)
(***************************************************************************)
EXTENDS Integers, Sequences, FiniteSets, TLC

VARIABLES
    now,                \* the wall clock: whole hours since the epoch, UTC
    env,                \* the environment variables that are set
    push_subscriptions, \* store table: [user_id, endpoint, p256dh, auth, timezone]
    entries,            \* store table: rows [user_id, date, mood]
    pc,                 \* position of the serve handler
    subscriptions,      \* handler local: rows returned by the first query
    eligibleSubs,       \* handler local: rows that passed the hour filter
    subsByLocalDate,    \* handler local: date groups not yet queried
    usersToNotify,      \* handler local: rows to send to
    tasks,              \* per recipient: position of its sendWebPush call
    faults,             \* per recipient: why its sendWebPush returned false
    posts,              \* per recipient: number of POSTs issued by fetch
    queries,            \* store reads issued by this invocation, in order
    response,           \* the Response of the last finished invocation
    runAt,              \* the clock reading at which this invocation began
    prev,               \* history: the previous finished invocation
    record,             \* what the history recorder keeps (nothing under Spec)
    prevRun,            \* history: the previous invocation at this clock reading
    generated,          \* number of key pairs and salts drawn so far
    requests,           \* per recipient: the POST request fetch was given
    messages,           \* history: key and salt of every encrypted message
    roundTrip,          \* one message encrypted and decrypted on its own
    user,               \* client state: the signed-in user, or NoUser
    notificationsEnabled, \* client state
    browserSubscription,  \* the endpoint of the browser's push subscription
    lastAlert,          \* the text of the last alert() of the client
    clientPc,           \* the store call the client is awaiting, if any
    deviceZone,         \* the time zone of the device the client runs on
    invokedAt,          \* history: the clock hour of the latest invocation
    skipped,            \* history: an hour has passed without an invocation
    attempts,           \* history: sendWebPush calls per user and local date
    entriesState,       \* client state: entries, the rows loadEntries was given
    todayEntry,         \* client state: the loaded entry of today, or NoTodayEntry
    formData,           \* client state: the answers in the form
    loading,            \* the sessions whose loadEntries query is in flight
    streaks             \* the streak the statistics show for each habit

vars == <<now, env, push_subscriptions, entries, pc, subscriptions,
          eligibleSubs, subsByLocalDate, usersToNotify, tasks, faults,
          posts, queries, response, runAt, prev, record, prevRun, generated,
          requests, messages, roundTrip, user, notificationsEnabled,
          browserSubscription, lastAlert, clientPc, deviceZone, invokedAt,
          skipped, attempts, entriesState, todayEntry, formData, loading,
          streaks>>

store == <<env, push_subscriptions, entries>>
locals == <<subscriptions, eligibleSubs, subsByLocalDate, usersToNotify,
            tasks, faults, posts, queries>>
\* what no step of the handler touches
views == <<entriesState, todayEntry, formData, loading, streaks>>
client == <<user, notificationsEnabled, browserSubscription, lastAlert,
            clientPc, deviceZone, views>>
\* what is kept of the schedule when the recorder keeps it
schedule == <<invokedAt, skipped, attempts>>
aside == <<record, roundTrip, client, schedule>>
\* what is kept of the requests when the recorder keeps them
wire == <<generated, requests, messages>>

(***************************************************************************)
(* Bounds of the model.                                                    *)
(***************************************************************************)
StartHour == 29      \* first clock reading: 05:00 UTC of day 1
MaxNow == 44         \* last clock reading: 20:00 UTC of day 1
MaxDay == 1          \* entries carry dates 0..MaxDay
MaxEntries == 2      \* number of rows of the entries table
MaxMessages == 4     \* messages encrypted while the recorder keeps requests
MaxDraws == 3        \* key pairs and salts a lone encryptPayload call may draw

Users == {"A", "B"}

GoodEndpoint == "https://push.example/send/abc"
MalformedEndpoint == "not a url"
Endpoints == {GoodEndpoint, MalformedEndpoint}

OtherPathEndpoint == "https://push.example/send/xyz"
OtherHostEndpoint == "http://updates.example:8443/wpush/abc"
PushEndpoints == {GoodEndpoint, OtherPathEndpoint, OtherHostEndpoint}

InvalidZone == "Mars/Olympus_Mons"
Timezones == {"UTC", "Pacific/Tongatapu", "Pacific/Pago_Pago", InvalidZone, ""}

EnvNames == {"VAPID_PUBLIC_KEY", "VAPID_PRIVATE_KEY", "SUPABASE_URL",
             "SUPABASE_SERVICE_ROLE_KEY"}

REMINDER_HOUR == 19

(***************************************************************************)
(* Time-zone resolution.                                                   *)
(***************************************************************************)
\* The zones Intl.DateTimeFormat accepts, with their UTC offset in hours.
ValidZone(timezone) == timezone \in {"UTC", "Pacific/Tongatapu", "Pacific/Pago_Pago"}

UtcOffset(timezone) ==
    CASE timezone = "UTC" -> 0
      [] timezone = "Pacific/Tongatapu" -> 13
      [] timezone = "Pacific/Pago_Pago" -> 0 - 11

\* getLocalDate: the formatted local date, or the UTC date when the
\* formatter throws.  A date is the number of the day since the epoch.
getLocalDate(timezone, t) ==
    IF ValidZone(timezone)
    THEN (t + UtcOffset(timezone)) \div 24
    ELSE t \div 24

\* Variant of getLocalHour that falls back to the UTC hour, as getLocalDate
\* falls back to the UTC date.
getLocalHourFallbackUTC(timezone, t) ==
    IF ValidZone(timezone)
    THEN (t + UtcOffset(timezone)) % 24
    ELSE t % 24

\* getLocalHour: the local hour, or -1 when the formatter throws.
getLocalHour(timezone, t) ==
    IF ValidZone(timezone)
    THEN (t + UtcOffset(timezone)) % 24
    ELSE 0 - 1

\* Variant of TimezoneOrUTC without the || "UTC" default.
TimezoneAsStored(sub) == sub.timezone

\* sub.timezone || "UTC"
TimezoneOrUTC(sub) == IF sub.timezone = "" THEN "UTC" ELSE sub.timezone

\* Variant of InReminderHour that compares with >= instead of ===.
InReminderHourOrLater(sub, t) ==
    getLocalHour(TimezoneOrUTC(sub), t) >= REMINDER_HOUR

\* the predicate of subscriptions.filter(...)
InReminderHour(sub, t) == getLocalHour(TimezoneOrUTC(sub), t) = REMINDER_HOUR

(***************************************************************************)
(* Sequence helpers standing for Array.prototype.filter / map.             *)
(***************************************************************************)
Range(s) == {s[i] : i \in DOMAIN s}

\* the orders in which a query may return the rows of a table
Orderings(S) == {s \in [1..Cardinality(S) -> S] : Range(s) = S}

UserIds(subs) == {subs[i].user_id : i \in DOMAIN subs}

(***************************************************************************)
(* Web Push cryptography.  Byte strings and keys are symbolic terms: a     *)
(* tuple whose first element names how the bytes were made and whose other *)
(* elements are what they were made from, so two byte strings are equal    *)
(* exactly when they were computed the same way from the same inputs.  A   *)
(* key pair is a number: the outcome of one key generation.                *)
(***************************************************************************)
base64UrlEncode(bytes) == <<"base64url", bytes>>
base64UrlDecode(str) == str[2]

\* new TextEncoder().encode(text)
TextEncode(text) == <<"text", text>>

Bytes(octets) == <<"bytes", octets>>

\* concat(...arrays)
concat(arrays) == <<"concat">> \o arrays

\* crypto.subtle.exportKey("raw", keyPair.publicKey), keyPair.privateKey
PublicKeyRaw(keyPair) == <<"public", keyPair>>
PrivateKey(keyPair) == <<"private", keyPair>>

\* crypto.subtle.deriveBits({name: "ECDH", public}, privateKey, 256): the
\* secret the two key pairs share, whichever side computes it
deriveBits(publicKey, privateKey) ==
    LET a == publicKey[2]
        b == privateKey[2]
    IN <<"ecdh", IF a < b THEN a ELSE b, IF a < b THEN b ELSE a>>

\* crypto.subtle.sign("HMAC", key, data) with key imported from raw bytes
HmacSign(key, data) == <<"hmac", key, data>>

\* result.slice(0, length)
Slice(bytes, length) == <<"slice", bytes, length>>

hkdf(salt, ikm, info, length) ==
    LET key == ikm
        prk == HmacSign(key, salt)
        infoKey == prk
        result == HmacSign(infoKey, concat(<<info, Bytes(<<1>>)>>))
    IN Slice(result, length)

createInfo(type, clientPublicKey, serverPublicKey) ==
    LET typeBytes == TextEncode(type)
        header == TextEncode("Content-Encoding: ")
        nul == Bytes(<<0>>)
    IN concat(<<header, typeBytes, nul, Bytes(<<0, 0, 0, 65>>), clientPublicKey,
                Bytes(<<0, 65>>), serverPublicKey>>)

\* crypto.subtle.encrypt({name: "AES-GCM", iv}, key, data)
AesGcmEncrypt(key, iv, data) == <<"aes-gcm", key, iv, data>>

\* encryptPayload; serverKeyPair is what generateKey returned and salt what
\* getRandomValues filled in
encryptPayload(clientPublicKeyBase64, clientAuthBase64, payload, serverKeyPair, salt) ==
    LET clientPublicKeyBytes == base64UrlDecode(clientPublicKeyBase64)
        clientAuthBytes == base64UrlDecode(clientAuthBase64)
        payloadBytes == TextEncode(payload)
        serverPublicKeyRaw == PublicKeyRaw(serverKeyPair)
        sharedSecret == deriveBits(clientPublicKeyBytes, PrivateKey(serverKeyPair))
        authInfo == TextEncode("Content-Encoding: auth\\0")
        prk == hkdf(clientAuthBytes, sharedSecret, authInfo, 32)
        contentKeyInfo == createInfo("aesgcm", clientPublicKeyBytes, serverPublicKeyRaw)
        contentKey == hkdf(salt, prk, contentKeyInfo, 16)
        nonceInfo == createInfo("nonce", clientPublicKeyBytes, serverPublicKeyRaw)
        nonce == hkdf(salt, prk, nonceInfo, 12)
        padded == concat(<<Bytes(<<0, 0>>), payloadBytes>>)
        encrypted == AesGcmEncrypt(contentKey, nonce, padded)
    IN [encrypted |-> encrypted, serverPublicKey |-> serverPublicKeyRaw, salt |-> salt]

\* the 16 random bytes of the n-th call of getRandomValues, and an auth secret
Salt(n) == <<"random", n>>
AuthSecret(n) == <<"auth", n>>

\* the key pairs of the subscribers' browsers; the dispatcher's are 1, 2, ...
ClientKeyPairs == {101}

(***************************************************************************)
(* The store.                                                              *)
(***************************************************************************)
SubscriptionRows ==
    [user_id : Users, endpoint : Endpoints,
     p256dh : {base64UrlEncode(PublicKeyRaw(k)) : k \in ClientKeyPairs},
     auth : {base64UrlEncode(AuthSecret(1))},
     timezone : Timezones]
EntryRows == [user_id : Users, date : 0..MaxDay, mood : {3}]

\* push_subscriptions is keyed by user_id (upsert onConflict: 'user_id')
UniqueUserId(rows) == \A r1, r2 \in rows : r1.user_id = r2.user_id => r1 = r2

\* Variant of SelectEntries without the .eq("date", localDate) restriction.
SelectEntriesAnyDate(localDate, userIds) ==
    {e \in entries : e.user_id \in userIds}

\* .from("entries").select("user_id").eq("date", localDate).in("user_id", userIds)
SelectEntries(localDate, userIds) ==
    {e \in entries : e.date = localDate /\ e.user_id \in userIds}

(***************************************************************************)
(* Responses of the handler.                                               *)
(***************************************************************************)
NoResponse == [kind |-> "none", status |-> 0]
ErrorResponse == [kind |-> "error", status |-> 500]
NoSubscriptionsResponse ==
    [kind |-> "early", status |-> 200, message |-> "No subscriptions found"]
\* Variant of NoUsersInHourResponse that reuses the other early exit's text.
NoUsersInHourSameText ==
    [kind |-> "early", status |-> 200, message |-> "No subscriptions found"]

NoUsersInHourResponse ==
    [kind |-> "early", status |-> 200,
     message |-> "No users in the 7 PM hour right now"]

\* Variant of SuccessCount that counts every outcome.
SuccessCountAll(results) == Len(results)

\* results.filter((r) => r.success).length
SuccessCount(results) == Cardinality({i \in DOMAIN results : results[i].success})

SummaryResponse(results, total) ==
    [kind |-> "summary", status |-> 200, sent |-> SuccessCount(results),
     total |-> total, results |-> results]

(***************************************************************************)
(* Eligibility: the synchronous part of the handler.                       *)
(***************************************************************************)
\* the loop that fills subsByLocalDate; a Map keeps insertion order
RECURSIVE GroupByLocalDate(_, _, _)
GroupByLocalDate(subs, t, acc) ==
    IF subs = <<>> THEN acc
    ELSE LET sub == Head(subs)
             localDate == getLocalDate(TimezoneOrUTC(sub), t)
             at == {i \in DOMAIN acc : acc[i].localDate = localDate}
         IN IF at = {}
            THEN GroupByLocalDate(Tail(subs), t,
                     Append(acc, [localDate |-> localDate, subs |-> <<sub>>]))
            ELSE LET i == CHOOSE j \in at : TRUE
                 IN GroupByLocalDate(Tail(subs), t,
                        [acc EXCEPT ![i].subs = Append(@, sub)])

\* subscriptions.filter(...): getLocalHour reads the clock once for every
\* element; reads[i] is the reading made for data[i]
FilterAt(data, reads) ==
    LET stamped == [i \in DOMAIN data |-> [sub |-> data[i], at |-> reads[i]]]
        kept == SelectSeq(stamped, LAMBDA p : InReminderHour(p.sub, p.at))
    IN [i \in DOMAIN kept |-> kept[i].sub]

\* Variant of GroupByLocalDateAt: a group, and so a query, for every row.
GroupPerUserAt(subs, reads, acc) ==
    [i \in DOMAIN subs |->
        [localDate |-> getLocalDate(TimezoneOrUTC(subs[i]), reads[i]),
         subs |-> <<subs[i]>>]]

\* the loop that fills subsByLocalDate when getLocalDate reads the clock
\* once for every element; reads[i] is the reading made for subs[i]
RECURSIVE GroupByLocalDateAt(_, _, _)
GroupByLocalDateAt(subs, reads, acc) ==
    IF subs = <<>> THEN acc
    ELSE LET sub == Head(subs)
             localDate == getLocalDate(TimezoneOrUTC(sub), Head(reads))
             at == {i \in DOMAIN acc : acc[i].localDate = localDate}
         IN IF at = {}
            THEN GroupByLocalDateAt(Tail(subs), Tail(reads),
                     Append(acc, [localDate |-> localDate, subs |-> <<sub>>]))
            ELSE LET i == CHOOSE j \in at : TRUE
                 IN GroupByLocalDateAt(Tail(subs), Tail(reads),
                        [acc EXCEPT ![i].subs = Append(@, sub)])

\* subs.filter((sub) => !usersWithEntries.has(sub.user_id))
UnloggedUsersNotYetNotified(subs, todayEntries) ==
    LET usersWithEntries == {e.user_id : e \in todayEntries}
    IN SelectSeq(subs, LAMBDA sub : /\ sub.user_id \notin usersWithEntries
                                    /\ sub \notin prevRun.recipients)

UnloggedUsers(subs, todayEntries) ==
    LET usersWithEntries == {e.user_id : e \in todayEntries}
    IN SelectSeq(subs, LAMBDA sub : sub.user_id \notin usersWithEntries)

EntriesQuery(group) ==
    [table |-> "entries", date |-> group.localDate,
     user_ids |-> UserIds(group.subs), state |-> "pending"]

SubscriptionsQuery ==
    [table |-> "push_subscriptions", date |-> 0, user_ids |-> {},
     state |-> "pending"]

\* the outcome of the query that was awaited is written to the log
Outcome(error) == IF error THEN "error" ELSE "ok"

Settle(log, outcome) == [log EXCEPT ![Len(log)].state = outcome]

\* Variant of ThrowsOn that ignores the error of a query.
ThrowsOnNothing(error) == FALSE

\* if (subError) throw subError / if (entriesError) throw entriesError
ThrowsOn(error) == error

(***************************************************************************)
(* sendWebPush.                                                            *)
(***************************************************************************)
\* new URL(subscription.endpoint) throws on a string that is not a URL
ParsesAsURL(endpoint) == endpoint # MalformedEndpoint

\* new URL(endpoint): the parts of a URL that parses
URL(endpoint) ==
    CASE endpoint = GoodEndpoint ->
           [protocol |-> "https:", host |-> "push.example", pathname |-> "/send/abc"]
      [] endpoint = OtherPathEndpoint ->
           [protocol |-> "https:", host |-> "push.example", pathname |-> "/send/xyz"]
      [] endpoint = OtherHostEndpoint ->
           [protocol |-> "http:", host |-> "updates.example:8443",
            pathname |-> "/wpush/abc"]

\* Variant of Audience that keeps the path of the endpoint.
AudienceWithPath(endpoint) ==
    <<URL(endpoint).protocol, "//", URL(endpoint).host, URL(endpoint).pathname>>

\* `${endpoint.protocol}//${endpoint.host}`
Audience(endpoint) == <<URL(endpoint).protocol, "//", URL(endpoint).host>>

VAPID_PUBLIC_KEY == <<"env", "VAPID_PUBLIC_KEY">>
VAPID_PRIVATE_KEY == <<"env", "VAPID_PRIVATE_KEY">>

JsonStringify(object) == <<"json", object>>

\* createVapidJwt; the clock is read in hours
createVapidJwt(audience, subject, publicKey, privateKey) ==
    LET header == base64UrlEncode(JsonStringify([typ |-> "JWT", alg |-> "ES256"]))
        payload == base64UrlEncode(JsonStringify(
                       [aud |-> audience, exp |-> now + 12, sub |-> subject]))
        unsignedToken == <<header, ".", payload>>
        signature == <<"ecdsa", privateKey, unsignedToken>>
        token == unsignedToken \o <<".", base64UrlEncode(signature)>>
    IN [authorization |-> [scheme |-> "vapid", t |-> token, k |-> publicKey],
        cryptoKey |-> publicKey]

\* Variant of PushHeaders that sends the salt of the first message ever.
PushHeadersFirstSalt(vapid, serverPublicKey, salt) ==
    [Authorization |-> vapid.authorization,
     TTL |-> "86400",
     ContentType |-> "application/octet-stream",
     ContentEncoding |-> "aesgcm",
     CryptoKey |-> [dh |-> base64UrlEncode(serverPublicKey),
                    p256ecdsa |-> VAPID_PUBLIC_KEY],
     Encryption |-> [salt |-> base64UrlEncode(Salt(1))]]

\* the headers object given to fetch
PushHeaders(vapid, serverPublicKey, salt) ==
    [Authorization |-> vapid.authorization,
     TTL |-> "86400",
     ContentType |-> "application/octet-stream",
     ContentEncoding |-> "aesgcm",
     CryptoKey |-> [dh |-> base64UrlEncode(serverPublicKey),
                    p256ecdsa |-> VAPID_PUBLIC_KEY],
     Encryption |-> [salt |-> base64UrlEncode(salt)]]

\* Variant of NewKeyPair: one key pair for every message.
SameKeyPair(n) == 1

\* generateKey after n earlier draws: a key pair no earlier call returned;
\* likewise getRandomValues
NewKeyPair(n) == n + 1
NewSalt(n) == Salt(n + 1)

ReminderText == "Time for your daily mental health check-in!"

\* the request sendWebPush gives to fetch for subscription, message being
\* what encryptPayload returned
PushRequest(subscription, message) ==
    LET audience == Audience(subscription.endpoint)
        vapid == createVapidJwt(audience, "mailto:noreply@mental-health-tracker.app",
                                VAPID_PUBLIC_KEY, VAPID_PRIVATE_KEY)
    IN [url |-> subscription.endpoint,
        method |-> "POST",
        headers |-> PushHeaders(vapid, message.serverPublicKey, message.salt),
        body |-> message.encrypted]

\* base64UrlDecode(undefined) throws before the first await of createVapidJwt
VapidConfigured == {"VAPID_PUBLIC_KEY", "VAPID_PRIVATE_KEY"} \subseteq env

\* createClient throws when the URL or the key is missing
StoreConfigured == {"SUPABASE_URL", "SUPABASE_SERVICE_ROLE_KEY"} \subseteq env

\* Variant of CaughtPushError in which sendWebPush has no try/catch.
UncaughtPushError == "throw"

\* catch (error) { console.error(...); return false; }
CaughtPushError == "false"

\* Variant of NotOkResult that encrypts and posts again after a failure.
NotOkRetry == "encrypt"

\* if (!response.ok) { ...; return false; }
NotOkResult == "false"

Settled(task) == task \in {"true", "false"}

\* the part of sendWebPush that runs before its first await
StartTask(sub) ==
    IF ~ParsesAsURL(sub.endpoint) THEN [task |-> CaughtPushError, fault |-> "url"]
    ELSE IF ~VapidConfigured THEN [task |-> CaughtPushError, fault |-> "vapid"]
    ELSE [task |-> "sign", fault |-> "none"]

NotRunning == 0 - 1

\* the local dates a subscription can be at while the clock runs
Dates == 0..((MaxNow + 15) \div 24)

NoAttempts == [u \in Users, d \in Dates |-> 0]

\* attempts, with a call of sendWebPush counted for every row of notify
\* under the local date of its zone at the clock reading t
WithAttempts(notify, t) ==
    [u \in Users, d \in Dates |->
        attempts[u, d]
          + Cardinality({i \in DOMAIN notify :
                            /\ notify[i].user_id = u
                            /\ getLocalDate(TimezoneOrUTC(notify[i]), t) = d})]

\* Variant of OncePerHour: the scheduler may trigger again within the hour.
AnyNumberPerHour == TRUE

\* the scheduler's trigger: at most one invocation per clock hour
OncePerHour == invokedAt # now

\* history: the users whose delivery failed in the invocation that has just
\* finished, and the hour it ran at
NoFailure == [at |-> NotRunning, failed |-> {}]

FailedUsers ==
    IF response.kind = "summary"
    THEN {response.results[i].user_id :
            i \in {j \in DOMAIN response.results : ~response.results[j].success}}
    ELSE {}

Finished == IF FailedUsers = {} THEN NoFailure
            ELSE [at |-> runAt, failed |-> FailedUsers]

\* history: whether the invocation that has just finished determined its
\* recipients, and the rows it called sendWebPush for
NoRun == [ran |-> FALSE, decided |-> FALSE, recipients |-> {}]

ThisRun == [ran |-> TRUE,
            decided |-> response.kind \in {"early", "summary"},
            recipients |-> Range(usersToNotify)]

(***************************************************************************)
(* The initial state: a deployed function, nothing invoked yet.  The store *)
(* holds any subscriptions (one per user at most) and a few entries; at    *)
(* most one environment variable is unset.                                 *)
(***************************************************************************)
Stores ==
    /\ push_subscriptions \in {rows \in SUBSET SubscriptionRows : UniqueUserId(rows)}
    /\ entries \in {rows \in SUBSET EntryRows : Cardinality(rows) <= MaxEntries}

\* no invocation is in progress and none has finished
Idle ==
    /\ pc = "idle"
    /\ subscriptions = <<>>
    /\ eligibleSubs = <<>>
    /\ subsByLocalDate = <<>>
    /\ usersToNotify = <<>>
    /\ tasks = <<>>
    /\ faults = <<>>
    /\ posts = <<>>
    /\ queries = <<>>
    /\ response = NoResponse
    /\ runAt = NotRunning
    /\ prev = NoFailure
    /\ prevRun = NoRun
    /\ generated = 0
    /\ requests = <<>>
    /\ messages = <<>>
    /\ invokedAt = NotRunning
    /\ skipped = FALSE
    /\ attempts = NoAttempts

\* no message is being encrypted outside an invocation
NoRoundTrip == [stage |-> "none"]

NoUser == "null"
NoSubscription == "null"
AwaitingNothing == [op |-> "none"]

\* useState(null) of todayEntry; an answer not given is null
NoTodayEntry == [user_id |-> NoUser]
NoAnswer == 0

\* useState({exercise: null, ..., mood: null, note: ''}) of formData
BlankForm == [mood |-> NoAnswer]

\* useState([]) of entries, and no query of loadEntries in flight
\* the habits the statistics show a streak of; with no entries every
\* streak is 0
Fields == {"exercise", "outside"}
NoStreaks == [field \in Fields |-> 0]

ViewsBlank ==
    /\ streaks = NoStreaks
    /\ entriesState = <<>>
    /\ todayEntry = NoTodayEntry
    /\ formData = BlankForm
    /\ loading = {}

\* the app has been opened and nobody is signed in
ClientOpened ==
    /\ ViewsBlank
    /\ user = NoUser
    /\ notificationsEnabled = FALSE
    /\ browserSubscription = NoSubscription
    /\ lastAlert = ""
    /\ clientPc = AwaitingNothing

DispatcherOnly ==
    /\ roundTrip = NoRoundTrip
    /\ ClientOpened
    /\ deviceZone = "UTC"

Init ==
    /\ now = StartHour
    /\ env \in {EnvNames} \cup {EnvNames \ {n} : n \in EnvNames}
    /\ Stores
    /\ record = {}
    /\ Idle
    /\ DispatcherOnly

(***************************************************************************)
(* The scheduler's clock: an hour passes between invocations.              *)
(***************************************************************************)
Tick ==
    /\ pc = "idle"
    /\ now < MaxNow
    /\ now' = now + 1
    /\ prevRun' = NoRun
    /\ skipped' = IF "schedule" \in record THEN skipped \/ invokedAt # now
                  ELSE skipped
    /\ UNCHANGED <<store, pc, locals, response, runAt, prev, record, roundTrip,
                   client, invokedAt, attempts, wire>>

(***************************************************************************)
(* serve handler, up to the first await: createClient and the query of     *)
(* push_subscriptions.                                                     *)
(***************************************************************************)
Invoke ==
    /\ pc = "idle"
    /\ "schedule" \in record => OncePerHour
    /\ invokedAt' = IF "schedule" \in record THEN now ELSE invokedAt
    /\ runAt' = now
    /\ IF StoreConfigured
       THEN /\ queries' = <<SubscriptionsQuery>>
            /\ response' = NoResponse
            /\ pc' = "fetch_subs"
       ELSE /\ queries' = <<>>
            /\ response' = ErrorResponse
            /\ pc' = "done"
    /\ UNCHANGED <<now, store, subscriptions, eligibleSubs, subsByLocalDate,
                   usersToNotify, tasks, faults, posts, prev, prevRun, record,
                   roundTrip, client, skipped, attempts, wire>>

(***************************************************************************)
(* The subscriptions query returns: error check, empty check, hour filter, *)
(* grouping by local date, and the first entries query.                    *)
(***************************************************************************)
\* hourReads[i] is the clock reading getLocalHour makes for data[i] and
\* dateReads[j] the one getLocalDate makes for the j-th row that passed the
\* filter; the clock is left at the last reading made
FilterAndGroup(data, subError, hourReads, dateReads) ==
    /\ pc = "fetch_subs"
    /\ IF ThrowsOn(subError)
       THEN /\ queries' = Settle(queries, Outcome(subError))
            /\ response' = ErrorResponse
            /\ pc' = "done"
            /\ UNCHANGED <<now, subscriptions, eligibleSubs, subsByLocalDate>>
       ELSE LET filtered == FilterAt(data, hourReads)
                groups == GroupByLocalDateAt(filtered, dateReads, <<>>)
            IN /\ subscriptions' = data
               /\ IF Len(data) = 0
                  THEN /\ queries' = Settle(queries, Outcome(subError))
                       /\ response' = NoSubscriptionsResponse
                       /\ pc' = "done"
                       /\ UNCHANGED <<now, eligibleSubs, subsByLocalDate>>
                  ELSE /\ eligibleSubs' = filtered
                       /\ IF Len(filtered) = 0
                          THEN /\ queries' = Settle(queries, Outcome(subError))
                               /\ response' = NoUsersInHourResponse
                               /\ pc' = "done"
                               /\ now' = hourReads[Len(data)]
                               /\ UNCHANGED subsByLocalDate
                          ELSE /\ subsByLocalDate' = groups
                               /\ queries' = Append(Settle(queries, Outcome(subError)),
                                                    EntriesQuery(groups[1]))
                               /\ pc' = "query_entries"
                               /\ now' = dateReads[Len(filtered)]
                               /\ UNCHANGED response
    /\ UNCHANGED <<store, usersToNotify, tasks, faults, posts, runAt, prev,
                   prevRun, aside, wire>>

\* every reading of the synchronous part sees the same clock
SubscriptionsResult(data, subError) ==
    FilterAndGroup(data, subError, [i \in DOMAIN data |-> now],
                   [i \in DOMAIN data |-> now])

(***************************************************************************)
(* An entries query returns: error check, unlogged users of the group,     *)
(* then the next group's query or, after the last group, the fan-out of    *)
(* sendWebPush calls, each of which runs up to its first await.            *)
(***************************************************************************)
EntriesResult(entriesError) ==
    /\ pc = "query_entries"
    /\ LET group == Head(subsByLocalDate)
           todayEntries == SelectEntries(group.localDate, UserIds(group.subs))
           notify == usersToNotify \o UnloggedUsers(group.subs, todayEntries)
           rest == Tail(subsByLocalDate)
       IN IF ThrowsOn(entriesError)
          THEN /\ queries' = Settle(queries, Outcome(entriesError))
               /\ response' = ErrorResponse
               /\ pc' = "done"
               /\ UNCHANGED <<subsByLocalDate, usersToNotify, tasks, faults, posts,
                              attempts>>
          ELSE /\ usersToNotify' = notify
               /\ subsByLocalDate' = rest
               /\ UNCHANGED response
               /\ IF rest # <<>>
                  THEN /\ queries' = Append(Settle(queries, Outcome(entriesError)),
                                            EntriesQuery(rest[1]))
                       /\ pc' = "query_entries"
                       /\ UNCHANGED <<tasks, faults, posts, attempts>>
                  ELSE /\ queries' = Settle(queries, Outcome(entriesError))
                       /\ pc' = "sending"
                       /\ tasks' = [i \in DOMAIN notify |-> StartTask(notify[i]).task]
                       /\ faults' = [i \in DOMAIN notify |-> StartTask(notify[i]).fault]
                       /\ posts' = [i \in DOMAIN notify |-> 0]
                       /\ attempts' = IF "schedule" \in record
                                      THEN WithAttempts(notify, runAt)
                                      ELSE attempts
    /\ UNCHANGED <<now, store, subscriptions, eligibleSubs, runAt, prev, prevRun,
                   record, roundTrip, client, invokedAt, skipped, wire>>

(***************************************************************************)
(* sendWebPush for recipient i: createVapidJwt, encryptPayload, fetch.     *)
(***************************************************************************)
\* Promise.all over subsToNotify.map(async ...): every call was started, and
\* each continues as soon as its own await resolves
RunnableInTurn(i) ==
    /\ i \in DOMAIN tasks
    /\ \A k \in DOMAIN tasks : k < i => Settled(tasks[k])

Runnable(i) == i \in DOMAIN tasks

\* createVapidJwt: importKey and sign succeed, or one of them throws
VapidResult(i, ok) ==
    /\ pc = "sending"
    /\ Runnable(i)
    /\ tasks[i] = "sign"
    /\ IF ok
       THEN /\ tasks' = [tasks EXCEPT ![i] = "encrypt"]
            /\ UNCHANGED faults
       ELSE /\ tasks' = [tasks EXCEPT ![i] = CaughtPushError]
            /\ faults' = [faults EXCEPT ![i] = "vapid"]
    /\ UNCHANGED <<now, store, pc, subscriptions, eligibleSubs, subsByLocalDate,
                   usersToNotify, posts, queries, response, runAt, prev, prevRun,
                   aside, wire>>

\* encryptPayload succeeds and fetch issues the POST, or encryptPayload throws
EncryptResult(i, ok) ==
    /\ pc = "sending"
    /\ Runnable(i)
    /\ tasks[i] = "encrypt"
    /\ IF ok
       THEN /\ tasks' = [tasks EXCEPT ![i] = "fetch"]
            /\ posts' = [posts EXCEPT ![i] = @ + 1]
            /\ UNCHANGED faults
            /\ IF "requests" \in record
               THEN LET sub == usersToNotify[i]
                        message == encryptPayload(sub.p256dh, sub.auth, ReminderText,
                                                  NewKeyPair(generated),
                                                  NewSalt(generated))
                    IN /\ generated < MaxMessages
                       /\ generated' = generated + 1
                       /\ requests' = (i :> PushRequest(sub, message)) @@ requests
                       /\ messages' = Append(messages,
                                             [serverPublicKey |-> message.serverPublicKey,
                                              salt |-> message.salt])
               ELSE UNCHANGED wire
       ELSE /\ tasks' = [tasks EXCEPT ![i] = CaughtPushError]
            /\ faults' = [faults EXCEPT ![i] = "encrypt"]
            /\ UNCHANGED <<posts, wire>>
    /\ UNCHANGED <<now, store, pc, subscriptions, eligibleSubs, subsByLocalDate,
                   usersToNotify, queries, response, runAt, prev, prevRun, aside>>

FetchOutcomes == {"ok", "not_ok", "network_error"}

\* the rows of push_subscriptions after sendWebPush has seen the answer to
\* its POST for sub: a non-2xx answer is logged and nothing is written
DeleteGoneSubscription(sub, outcome) ==
    IF outcome = "not_ok" THEN push_subscriptions \ {sub} ELSE push_subscriptions

RowsAfterResponse(sub, outcome) == push_subscriptions

\* the push service answers 2xx, answers another status, or fetch rejects
FetchResult(i, outcome) ==
    /\ pc = "sending"
    /\ Runnable(i)
    /\ tasks[i] = "fetch"
    /\ CASE outcome = "ok" ->
              /\ tasks' = [tasks EXCEPT ![i] = "true"]
              /\ UNCHANGED faults
         [] outcome = "not_ok" ->
              /\ tasks' = [tasks EXCEPT ![i] = NotOkResult]
              /\ faults' = [faults EXCEPT ![i] = "not_ok"]
         [] outcome = "network_error" ->
              /\ tasks' = [tasks EXCEPT ![i] = CaughtPushError]
              /\ faults' = [faults EXCEPT ![i] = "network_error"]
    /\ push_subscriptions' = RowsAfterResponse(usersToNotify[i], outcome)
    /\ UNCHANGED <<now, env, entries, pc, subscriptions, eligibleSubs,
                   subsByLocalDate, usersToNotify, posts, queries, response,
                   runAt, prev, prevRun, aside, wire>>

(***************************************************************************)
(* await Promise.all(...) resumes: when every call has returned the        *)
(* summary is built; when a call has thrown, the handler's catch answers   *)
(* with status 500.                                                        *)
(***************************************************************************)
\* Variant of AllReturned: the await resumes with the first call that returns
\* (Promise.race in place of Promise.all).
FirstReturned == \E i \in DOMAIN tasks : Settled(tasks[i])

\* Promise.all resolves when every promise of the array has resolved
AllReturned == \A i \in DOMAIN tasks : Settled(tasks[i])

Respond ==
    /\ pc = "sending"
    /\ IF \E i \in DOMAIN tasks : tasks[i] = "throw"
       THEN TRUE
       ELSE AllReturned
    /\ IF \E i \in DOMAIN tasks : tasks[i] = "throw"
       THEN response' = ErrorResponse
       ELSE LET results == [i \in DOMAIN usersToNotify |->
                               [user_id |-> usersToNotify[i].user_id,
                                success |-> tasks[i] = "true"]]
            IN response' = SummaryResponse(results, Len(usersToNotify))
    /\ pc' = "done"
    /\ UNCHANGED <<now, store, locals, runAt, prev, prevRun, aside, wire>>

(***************************************************************************)
(* The Response has been returned: the handler's locals are gone.          *)
(***************************************************************************)
Return ==
    /\ pc = "done"
    /\ pc' = "idle"
    /\ prev' = Finished
    /\ subscriptions' = <<>>
    /\ eligibleSubs' = <<>>
    /\ subsByLocalDate' = <<>>
    /\ usersToNotify' = <<>>
    /\ tasks' = <<>>
    /\ faults' = <<>>
    /\ posts' = <<>>
    /\ queries' = <<>>
    /\ response' = NoResponse
    /\ runAt' = NotRunning
    /\ prevRun' = IF "runs" \in record THEN ThisRun ELSE NoRun
    /\ requests' = <<>>
    /\ UNCHANGED <<now, store, aside, generated, messages>>

Next ==
    \/ Tick
    \/ Invoke
    \/ \E data \in Orderings(push_subscriptions), subError \in BOOLEAN :
           SubscriptionsResult(data, subError)
    \/ \E entriesError \in BOOLEAN : EntriesResult(entriesError)
    \/ \E i \in 1..Cardinality(Users), ok \in BOOLEAN : VapidResult(i, ok)
    \/ \E i \in 1..Cardinality(Users), ok \in BOOLEAN : EncryptResult(i, ok)
    \/ \E i \in 1..Cardinality(Users), outcome \in FetchOutcomes :
           FetchResult(i, outcome)
    \/ Respond
    \/ Return

Spec == Init /\ [][Next]_vars

(***************************************************************************)
(* The client (App.jsx) in one browser.  Each handler runs up to the store *)
(* call it awaits; the store's answer resumes it.  A user may sign out     *)
(* while a call is awaited.                                                *)
(***************************************************************************)
dispatcher == <<now, env, pc, locals, response, runAt, prev, prevRun, record,
                wire, roundTrip, schedule>>

DeviceZones == {"UTC", "Pacific/Tongatapu"}
BrowserEndpoints == {GoodEndpoint, OtherPathEndpoint}
Moods == {3, 4}

\* Variant of getLocalDateKey that takes the date of toISOString(), the UTC
\* date.
getLocalDateKeyUTC(t) == t \div 24

\* getLocalDateKey(): the calendar date of the device's clock
getLocalDateKey(t) == (t + UtcOffset(deviceZone)) \div 24

\* Variant of UpsertSubscription: a plain insert.
InsertSubscription(rows, row) == rows \cup {row}

\* .upsert(row, { onConflict: 'user_id' }) on a table keyed by user_id
UpsertSubscription(rows, row) ==
    {r \in rows : r.user_id # row.user_id} \cup {row}

\* Variant of UpsertEntry: a plain insert.
InsertEntry(rows, entry) == rows \cup {entry}

\* .upsert(entry, { onConflict: 'user_id,date' }) under UNIQUE(user_id, date)
UpsertEntry(rows, entry) ==
    {r \in rows : ~(r.user_id = entry.user_id /\ r.date = entry.date)} \cup {entry}

\* onAuthStateChange: a session begins, and the effect on [user] calls
\* loadEntries, which runs up to the select it awaits
SignIn(u) ==
    /\ user = NoUser
    /\ user' = u
    /\ loading' = loading \cup {u}
    /\ UNCHANGED <<dispatcher, push_subscriptions, entries, notificationsEnabled,
                   browserSubscription, lastAlert, clientPc, deviceZone,
                   entriesState, todayEntry, formData, streaks>>

\* handleSignOut: supabase.auth.signOut() resolves, onAuthStateChange has
\* set the user to null, and the entries, today's entry and the form are
\* reset
SignOut ==
    /\ user # NoUser
    /\ user' = NoUser
    /\ entriesState' = <<>>
    /\ todayEntry' = NoTodayEntry
    /\ formData' = BlankForm
    /\ UNCHANGED <<dispatcher, push_subscriptions, entries, notificationsEnabled,
                   browserSubscription, lastAlert, clientPc, deviceZone, loading,
                   streaks>>

\* onAuthStateChange with no session: the session expired or was ended in
\* another tab
SessionEnds ==
    /\ user # NoUser
    /\ user' = NoUser
    /\ UNCHANGED <<dispatcher, views, push_subscriptions, entries,
                   notificationsEnabled, browserSubscription, lastAlert, clientPc,
                   deviceZone>>

\* .order('date', { ascending: false }) of rows with distinct dates
RECURSIVE SortByDateDescending(_)
SortByDateDescending(rows) ==
    IF rows = {} THEN <<>>
    ELSE LET latest == CHOOSE r \in rows : \A q \in rows : q.date <= r.date
         IN <<latest>> \o SortByDateDescending(rows \ {latest})

\* what the select of loadEntries returns to the session of u: row level
\* security leaves the rows of auth.uid()
OwnEntries(u) == SortByDateDescending({e \in entries : e.user_id = u})

\* data?.find(e => e.date === today)
FindToday(data, today) ==
    IF \E i \in DOMAIN data : data[i].date = today
    THEN data[CHOOSE i \in DOMAIN data :
                 /\ data[i].date = today
                 /\ \A j \in DOMAIN data : data[j].date = today => i <= j]
    ELSE NoTodayEntry

\* the effect on [todayEntry]: if (todayEntry) setFormData({...})
FormAfter(entry) == IF entry # NoTodayEntry THEN [mood |-> entry.mood] ELSE formData

\* the select of loadEntries issued by the session of u returns
LoadEntriesResult(u, error) ==
    /\ u \in loading
    /\ loading' = loading \ {u}
    /\ IF error
       THEN /\ lastAlert' = "Error loading entries"
            /\ UNCHANGED <<entriesState, todayEntry, formData>>
       ELSE LET data == OwnEntries(u)
                todayData == FindToday(data, getLocalDateKey(now))
            IN /\ entriesState' = data
               /\ todayEntry' = todayData
               /\ formData' = FormAfter(todayData)
               /\ UNCHANGED lastAlert
    /\ UNCHANGED <<dispatcher, push_subscriptions, entries, user,
                   notificationsEnabled, browserSubscription, clientPc, deviceZone,
                   streaks>>

\* a click on a mood of the form: setFormData(prev => ({...prev, mood: num}))
SetMood(mood) ==
    /\ user # NoUser
    /\ formData' = [mood |-> mood]
    /\ UNCHANGED <<dispatcher, push_subscriptions, entries, user,
                   notificationsEnabled, browserSubscription, lastAlert, clientPc,
                   deviceZone, entriesState, todayEntry, loading, streaks>>

\* subscribeToNotifications up to the upsert it awaits
SubscribeStart(outcome, endpoint) ==
    /\ user # NoUser
    /\ clientPc = AwaitingNothing
    /\ CASE outcome = "denied" ->
              /\ lastAlert' = "Notification permission denied"
              /\ UNCHANGED <<browserSubscription, clientPc>>
         [] outcome = "subscribe_failed" ->
              /\ lastAlert' = "Error enabling notifications"
              /\ UNCHANGED <<browserSubscription, clientPc>>
         [] outcome = "subscribed" ->
              LET subscription == IF browserSubscription # NoSubscription
                                  THEN browserSubscription ELSE endpoint
              IN /\ browserSubscription' = subscription
                 /\ clientPc' =
                       [op |-> "upsert",
                        row |-> [user_id |-> user,
                                 endpoint |-> subscription,
                                 p256dh |-> base64UrlEncode(PublicKeyRaw(101)),
                                 auth |-> base64UrlEncode(AuthSecret(1)),
                                 timezone |-> deviceZone]]
                 /\ UNCHANGED lastAlert
    /\ UNCHANGED <<dispatcher, views, push_subscriptions, entries, user,
                   notificationsEnabled, deviceZone>>

\* the upsert of subscribeToNotifications returns
UpsertResult(error) ==
    /\ clientPc.op = "upsert"
    /\ clientPc' = AwaitingNothing
    /\ IF error
       THEN /\ lastAlert' = "Error enabling notifications"
            /\ UNCHANGED <<push_subscriptions, notificationsEnabled>>
       ELSE /\ push_subscriptions' = UpsertSubscription(push_subscriptions, clientPc.row)
            /\ notificationsEnabled' = TRUE
            /\ lastAlert' = "Daily reminders enabled!"
    /\ UNCHANGED <<dispatcher, views, entries, user, browserSubscription, deviceZone>>

\* unsubscribeFromNotifications up to the delete it awaits
UnsubscribeStart(unsubscribed) ==
    /\ user # NoUser
    /\ clientPc = AwaitingNothing
    /\ IF browserSubscription # NoSubscription /\ ~unsubscribed
       THEN /\ lastAlert' = "Error disabling notifications"
            /\ UNCHANGED <<browserSubscription, clientPc>>
       ELSE /\ browserSubscription' = NoSubscription
            /\ clientPc' = [op |-> "delete", user_id |-> user]
            /\ UNCHANGED lastAlert
    /\ UNCHANGED <<dispatcher, views, push_subscriptions, entries, user,
                   notificationsEnabled, deviceZone>>

\* the delete of unsubscribeFromNotifications returns; its result is not
\* looked at
DeleteResult(error) ==
    /\ clientPc.op = "delete"
    /\ clientPc' = AwaitingNothing
    /\ push_subscriptions' =
          IF error THEN push_subscriptions
          ELSE {r \in push_subscriptions : r.user_id # clientPc.user_id}
    /\ notificationsEnabled' = FALSE
    /\ lastAlert' = "Daily reminders disabled."
    /\ UNCHANGED <<dispatcher, views, entries, user, browserSubscription, deviceZone>>

\* handleSubmit up to the upsert it awaits
isComplete == formData.mood # NoAnswer

SubmitStart ==
    /\ user # NoUser
    /\ clientPc = AwaitingNothing
    /\ isComplete
    /\ clientPc' = [op |-> "save",
                    entry |-> [user_id |-> user, date |-> getLocalDateKey(now),
                               mood |-> formData.mood]]
    /\ UNCHANGED <<dispatcher, views, push_subscriptions, entries, user,
                   notificationsEnabled, browserSubscription, lastAlert, deviceZone>>

\* the upsert of handleSubmit returns; after a save loadEntries is called,
\* with the session there is at that moment
SubmitResult(error) ==
    /\ clientPc.op = "save"
    /\ clientPc' = AwaitingNothing
    /\ IF error
       THEN /\ lastAlert' = "Error saving entry"
            /\ UNCHANGED <<entries, loading>>
       ELSE /\ entries' = UpsertEntry(entries, clientPc.entry)
            /\ lastAlert' = "Entry saved!"
            /\ loading' = loading \cup {user}
    /\ UNCHANGED <<dispatcher, push_subscriptions, user, notificationsEnabled,
                   browserSubscription, deviceZone, entriesState, todayEntry,
                   formData, streaks>>

\* the device is taken to another time zone
Travel(zone) ==
    /\ zone # deviceZone
    /\ deviceZone' = zone
    /\ UNCHANGED <<dispatcher, views, push_subscriptions, entries, user,
                   notificationsEnabled, browserSubscription, lastAlert, clientPc>>

\* a deployed function, an empty store and a freshly opened app, at the
\* reminder hour of the zone UTC
Deployed ==
    /\ now = MaxNow - 1
    /\ env = EnvNames
    /\ push_subscriptions = {}
    /\ entries = {}
    /\ record = {}
    /\ Idle
    /\ roundTrip = NoRoundTrip
    /\ ClientOpened
    /\ deviceZone = "UTC"

(***************************************************************************)
(* Reminders: users of one browser sign in and out, enable and disable     *)
(* reminders, and between their operations the function is invoked: an     *)
(* invocation begins when the client awaits nothing and the client acts    *)
(* when no invocation is in progress.                                      *)
(***************************************************************************)
ClientReminderStep ==
    \/ \E u \in Users : SignIn(u)
    \/ SignOut
    \/ \E outcome \in {"denied", "subscribe_failed", "subscribed"},
          endpoint \in BrowserEndpoints : SubscribeStart(outcome, endpoint)
    \/ \E error \in BOOLEAN : UpsertResult(error)
    \/ \E unsubscribed \in BOOLEAN : UnsubscribeStart(unsubscribed)
    \/ \E error \in BOOLEAN : DeleteResult(error)

NextReminders ==
    \/ clientPc = AwaitingNothing /\ Next
    \/ pc = "idle" /\ ClientReminderStep

SpecReminders == Deployed /\ [][NextReminders]_vars

(***************************************************************************)
(* Entries: users of one browser sign in and out and save entries, while   *)
(* the clock advances and the device changes its time zone.  The store     *)
(* answers a loadEntries before the next operation begins.                 *)
(***************************************************************************)
NextEntries ==
    \/ loading = {} /\ Tick
    \/ loading = {} /\ \E zone \in DeviceZones : Travel(zone)
    \/ loading = {} /\ \E u \in Users : SignIn(u)
    \/ loading = {} /\ SignOut
    \/ \E u \in loading, error \in BOOLEAN : LoadEntriesResult(u, error)
    \/ loading = {} /\ \E mood \in Moods : SetMood(mood)
    \/ loading = {} /\ SubmitStart
    \/ \E error \in BOOLEAN : SubmitResult(error)

SpecEntries == Deployed /\ [][NextEntries]_vars

(***************************************************************************)
(* The same function with every variable configured and the recorder of    *)
(* invocations on: an invocation may be repeated at one clock reading, and *)
(* what the first determined is kept for comparison until the clock moves. *)
(***************************************************************************)
InitRepeated ==
    /\ now = StartHour
    /\ env = EnvNames
    /\ Stores
    /\ record = {"runs"}
    /\ Idle
    /\ DispatcherOnly

SpecRepeated == InitRepeated /\ [][Next]_vars

(***************************************************************************)
(* The same function with the recorder of requests on: what is kept of a   *)
(* delivery is the request given to fetch, and of every encrypted message  *)
(* its key and salt.  The subscriptions are of users in one zone, at       *)
(* endpoints of two push services, with keys of two browsers.              *)
(***************************************************************************)
PushRows ==
    [user_id : Users, endpoint : PushEndpoints,
     p256dh : {base64UrlEncode(PublicKeyRaw(k)) : k \in {101, 102}},
     auth : {base64UrlEncode(AuthSecret(1))},
     timezone : {"Pacific/Tongatapu"}]

InitPush ==
    /\ now = StartHour
    /\ env = EnvNames
    /\ push_subscriptions \in {rows \in SUBSET PushRows : UniqueUserId(rows)}
    /\ entries = {}
    /\ record = {"requests"}
    /\ Idle
    /\ DispatcherOnly

SpecPush == InitPush /\ [][Next]_vars

(***************************************************************************)
(* encryptPayload on its own: a plaintext, a subscriber's key pair and     *)
(* auth secret are chosen, encryptPayload is applied with some draw of key *)
(* pair and salt, and the subscriber's browser decrypts what it returned.  *)
(***************************************************************************)
Payloads == {ReminderText, ""}

\* HKDF (RFC 5869) with one block of output: extract is HMAC keyed by salt
\* over ikm, expand is HMAC keyed by the extracted key over info || 0x01
StandardHkdf(salt, ikm, info, length) ==
    LET prk == HmacSign(salt, ikm)
        result == HmacSign(prk, concat(<<info, Bytes(<<1>>)>>))
    IN Slice(result, length)

\* the info of the aesgcm content coding: "Content-Encoding: " type 0x00
\* "P-256" 0x00, then each public key behind its two-byte length
StandardInfo(type, clientPublicKey, serverPublicKey) ==
    concat(<<TextEncode("Content-Encoding: "), TextEncode(type), Bytes(<<0>>),
             TextEncode("P-256"), Bytes(<<0>>),
             Bytes(<<0, 65>>), clientPublicKey,
             Bytes(<<0, 65>>), serverPublicKey>>)

DecryptFailed == <<"OperationError">>

\* AES-GCM decryption gives the data back under the key and iv it was
\* encrypted with, and fails under any other
AesGcmDecrypt(key, iv, encrypted) ==
    IF encrypted[2] = key /\ encrypted[3] = iv THEN encrypted[4] ELSE DecryptFailed

\* removal of the two-byte padding length (0) in front of the plaintext
Unpad(padded) ==
    IF padded = DecryptFailed THEN DecryptFailed
    ELSE IF padded[2] = Bytes(<<0, 0>>) THEN padded[3] ELSE DecryptFailed

\* the receiver's side of the aesgcm content coding
StandardDecrypt(clientKeyPair, clientAuth, serverPublicKey, salt, encrypted) ==
    LET clientPublicKey == PublicKeyRaw(clientKeyPair)
        sharedSecret == deriveBits(serverPublicKey, PrivateKey(clientKeyPair))
        prk == StandardHkdf(clientAuth, sharedSecret,
                            TextEncode("Content-Encoding: auth\\0"), 32)
        contentKey == StandardHkdf(salt, prk,
                          StandardInfo("aesgcm", clientPublicKey, serverPublicKey), 16)
        nonce == StandardHkdf(salt, prk,
                     StandardInfo("nonce", clientPublicKey, serverPublicKey), 12)
    IN Unpad(AesGcmDecrypt(contentKey, nonce, encrypted))

InitRoundTrip ==
    /\ now = StartHour
    /\ env = EnvNames
    /\ push_subscriptions = {}
    /\ entries = {}
    /\ record = {}
    /\ Idle
    /\ roundTrip \in [stage : {"input"}, payload : Payloads,
                       clientKeyPair : {101, 102},
                       clientAuth : {AuthSecret(1), AuthSecret(2)}]
    /\ ClientOpened
    /\ deviceZone = "UTC"

Encrypt(serverKeyPair, salt) ==
    /\ roundTrip.stage = "input"
    /\ roundTrip' =
          [stage |-> "encrypted",
           payload |-> roundTrip.payload,
           clientKeyPair |-> roundTrip.clientKeyPair,
           clientAuth |-> roundTrip.clientAuth,
           message |-> encryptPayload(
                           base64UrlEncode(PublicKeyRaw(roundTrip.clientKeyPair)),
                           base64UrlEncode(roundTrip.clientAuth),
                           roundTrip.payload, serverKeyPair, salt)]
    /\ UNCHANGED <<now, store, pc, locals, response, runAt, prev, prevRun, record,
                   wire, client, schedule>>

Decrypt ==
    /\ roundTrip.stage = "encrypted"
    /\ roundTrip' =
          [stage |-> "decrypted",
           payload |-> roundTrip.payload,
           clientKeyPair |-> roundTrip.clientKeyPair,
           clientAuth |-> roundTrip.clientAuth,
           message |-> roundTrip.message,
           recovered |-> StandardDecrypt(roundTrip.clientKeyPair,
                                         roundTrip.clientAuth,
                                         roundTrip.message.serverPublicKey,
                                         roundTrip.message.salt,
                                         roundTrip.message.encrypted)]
    /\ UNCHANGED <<now, store, pc, locals, response, runAt, prev, prevRun, record,
                   wire, client, schedule>>

NextRoundTrip ==
    \/ \E serverKeyPair \in 1..MaxDraws, n \in 1..MaxDraws :
           Encrypt(serverKeyPair, Salt(n))
    \/ Decrypt

SpecRoundTrip == InitRoundTrip /\ [][NextRoundTrip]_vars

(***************************************************************************)
(* Reference notions the properties are stated with.                       *)
(***************************************************************************)
\* the zone of a subscription: an IANA name, UTC when none is stored
ZoneOf(sub) == IF sub.timezone = "" THEN "UTC" ELSE sub.timezone

\* it is the reminder hour on sub's wall clock at instant t and the user has
\* no entry for the calendar date of that wall clock
Eligible(sub, t) ==
    /\ ValidZone(ZoneOf(sub))
    /\ (t + UtcOffset(ZoneOf(sub))) % 24 = 19
    /\ ~\E e \in entries :
          /\ e.user_id = sub.user_id
          /\ e.date = (t + UtcOffset(ZoneOf(sub))) \div 24

EligibleSet(t) == {sub \in push_subscriptions : Eligible(sub, t)}

\* the invocation has determined its recipients (no query failed)
EligibilityDecided ==
    \/ pc = "sending"
    \/ pc = "done" /\ response.kind \in {"early", "summary"}

\* sendWebPush was called for every row of usersToNotify
Attempted == Range(usersToNotify)

NoPostIssued == \A i \in DOMAIN posts : posts[i] = 0

(***************************************************************************)
(* C1.  In every invocation that determines its recipients, a subscription *)
(* of the store is among the recipients delivery is attempted to if and    *)
(* only if the local hour in its zone is 19 and the user has no entry for  *)
(* the local date of that zone; entries of other dates do not matter.      *)
(***************************************************************************)
C1_EligibleIff ==
    EligibilityDecided =>
        /\ Attempted = EligibleSet(runAt)
        /\ \A i, j \in DOMAIN usersToNotify :
              usersToNotify[i] = usersToNotify[j] => i = j

\* one user in the reminder hour is excluded by an entry of today, another is
\* notified although an entry of another date exists
C1_Witness ==
    /\ pc = "sending"
    /\ \E sub \in push_subscriptions :
          /\ InReminderHour(sub, runAt)
          /\ sub \notin Attempted
          /\ \E e \in entries : e.user_id = sub.user_id
    /\ \E sub \in Attempted : \E e \in entries : e.user_id = sub.user_id

(***************************************************************************)
(* C2.  A fault of one recipient's delivery (URL, VAPID, encryption,       *)
(* network, non-2xx) makes that recipient's outcome false and nothing      *)
(* else: the invocation answers with the summary, status 200, and every    *)
(* other recipient's outcome and POST depend on its own delivery alone.    *)
(***************************************************************************)
C2_FaultIsLocal ==
    (pc = "done" /\ tasks # <<>>) =>
        /\ response.kind = "summary"
        /\ response.status = 200
        /\ DOMAIN response.results = DOMAIN usersToNotify
        /\ \A i \in DOMAIN usersToNotify :
              /\ response.results[i].user_id = usersToNotify[i].user_id
              /\ response.results[i].success = (faults[i] = "none")
              /\ posts[i] = IF faults[i] \in {"url", "vapid", "encrypt"}
                            THEN 0 ELSE 1

\* two recipients: one failed, the other was delivered
C2_Witness ==
    /\ pc = "done"
    /\ response.kind = "summary"
    /\ \E i, j \in DOMAIN faults :
          /\ faults[i] \in {"url", "vapid", "encrypt", "network_error", "not_ok"}
          /\ faults[j] = "none"
          /\ response.results[j].success
          /\ posts[j] = 1

(***************************************************************************)
(* C3.  When the subscriptions query or an entries query fails, the        *)
(* invocation ends with the error payload and status 500, and no POST has  *)
(* been issued, also not to recipients of groups queried successfully.     *)
(***************************************************************************)
C3_QueryFaultIsFatal ==
    (\E k \in DOMAIN queries : queries[k].state = "error") =>
        /\ pc = "done"
        /\ response = ErrorResponse
        /\ response.status = 500
        /\ tasks = <<>>
        /\ NoPostIssued

\* the second date group's query failed after the first group had yielded a
\* recipient
C3_Witness ==
    /\ pc = "done"
    /\ Len(queries) = 3
    /\ queries[2].state = "ok"
    /\ queries[3].state = "error"
    /\ usersToNotify # <<>>
    /\ NoPostIssued

(***************************************************************************)
(* C4.  When a required configuration value is missing, the invocation     *)
(* makes no access to the subscriptions or entries store.                  *)
(***************************************************************************)
C4_MissingConfigNoStoreAccess ==
    env # EnvNames => queries = <<>>

(***************************************************************************)
(* C5.  An invocation issues at most one POST per recipient; a delivery    *)
(* that failed after its POST is not posted again.                         *)
(***************************************************************************)
C5_AtMostOnePost ==
    /\ \A i \in DOMAIN posts : posts[i] <= 1
    /\ \A i \in DOMAIN posts :
          faults[i] \in {"not_ok", "network_error"} =>
              posts[i] = 1 /\ tasks[i] = "false"

\* a delivery was answered with a non-2xx status and the invocation is over
C5_Witness ==
    /\ pc = "done"
    /\ \E i \in DOMAIN posts : faults[i] = "not_ok" /\ posts[i] = 1

C7_SummaryCounts ==
    (pc = "done" /\ response.kind = "summary") =>
        /\ response.total = Cardinality(EligibleSet(runAt))
        /\ Len(response.results) = response.total
        /\ \A sub \in EligibleSet(runAt) :
              Cardinality({i \in DOMAIN response.results :
                             response.results[i].user_id = sub.user_id}) = 1
        /\ \A i \in DOMAIN response.results :
              response.results[i].success = (faults[i] = "none")
        /\ response.sent =
              Cardinality({i \in DOMAIN faults : faults[i] = "none"})
        /\ 0 <= response.sent
        /\ response.sent <= response.total

\* two eligible recipients, one endpoint answered with a non-2xx status:
\* "Sent 1/2 reminders"
C7_Witness ==
    /\ pc = "done"
    /\ response.kind = "summary"
    /\ response.sent = 1
    /\ response.total = 2
    /\ \E i, j \in DOMAIN response.results :
          /\ faults[i] = "not_ok"
          /\ ~response.results[i].success
          /\ response.results[j].success

(***************************************************************************)
(* C8.  As claimed: whenever the subscription list is empty or no          *)
(* recipient is eligible, the invocation ends with an early-exit response  *)
(* naming the reason, not with a summary, and no POST is issued.           *)
(***************************************************************************)
C8_EarlyExitWheneverNobodyEligible ==
    (pc = "done" /\ response.kind \in {"early", "summary"}
       /\ EligibleSet(runAt) = {}) =>
        /\ response.kind = "early"
        /\ NoPostIssued

(***************************************************************************)
(* C8, amended.  With an empty subscription list the invocation ends with  *)
(* the early exit "No subscriptions found"; with subscriptions none of     *)
(* which is in the reminder hour it ends with the distinct early exit "No  *)
(* users in the 7 PM hour right now"; in both cases no entries query and   *)
(* no POST is issued.  When a subscription is in the reminder hour but     *)
(* every such user has logged, entries are queried and the invocation ends *)
(* with the summary "Sent 0/0 reminders", empty results, and no POST.      *)
(***************************************************************************)
C8_EarlyExitOrEmptySummary ==
    (pc = "done" /\ response.kind \in {"early", "summary"}
       /\ EligibleSet(runAt) = {}) =>
        /\ NoPostIssued
        /\ response.status = 200
        /\ IF push_subscriptions = {}
           THEN /\ response = NoSubscriptionsResponse
                /\ Len(queries) = 1
           ELSE IF \A sub \in push_subscriptions :
                      ~(ValidZone(ZoneOf(sub))
                        /\ (runAt + UtcOffset(ZoneOf(sub))) % 24 = 19)
           THEN /\ response.kind = "early"
                /\ response.message = "No users in the 7 PM hour right now"
                /\ response # NoSubscriptionsResponse
                /\ Len(queries) = 1
           ELSE /\ response.kind = "summary"
                /\ response.sent = 0
                /\ response.total = 0
                /\ response.results = <<>>
                /\ Len(queries) >= 2

\* everyone in the reminder hour has logged: "Sent 0/0 reminders"
C8_Witness ==
    /\ pc = "done"
    /\ response.kind = "summary"
    /\ response.total = 0
    /\ eligibleSubs # <<>>

(***************************************************************************)
(* C9.  For a subscription with an invalid time zone getLocalHour gives -1 *)
(* and getLocalDate the UTC date; the subscription never passes the hour   *)
(* filter and is never a recipient; it does not make the invocation fail,  *)
(* and the recipients are those of the store without it.                   *)
(***************************************************************************)
C9_InvalidZoneNeverEligible ==
    LET invalid == {sub \in push_subscriptions : sub.timezone = InvalidZone}
    IN /\ \A sub \in invalid :
             /\ getLocalHour(TimezoneOrUTC(sub), now) = 0 - 1
             /\ getLocalDate(TimezoneOrUTC(sub), now) = now \div 24
             /\ sub \notin Range(eligibleSubs)
             /\ sub \notin Attempted
       /\ EligibilityDecided =>
             Attempted = {sub \in push_subscriptions \ invalid : Eligible(sub, runAt)}
       /\ (pc = "done" /\ response.kind = "error") =>
             \/ ~StoreConfigured
             \/ \E k \in DOMAIN queries : queries[k].state = "error"

\* at 19:00 UTC a subscription with an invalid zone is in the store, and
\* another subscription is a recipient
C9_Witness ==
    /\ pc = "sending"
    /\ runAt % 24 = 19
    /\ \E sub \in push_subscriptions : sub.timezone = InvalidZone
    /\ Attempted # {}

(***************************************************************************)
(* C10.  As claimed: a subscription whose stored time zone is empty is     *)
(* dropped and never notified.                                             *)
(***************************************************************************)
C10_EmptyZoneNeverNotified ==
    \A sub \in Attempted : sub.timezone # ""

(***************************************************************************)
(* C10, amended.  A subscription whose stored time zone is empty is        *)
(* evaluated as a UTC subscription: it is a recipient if and only if the   *)
(* UTC hour is 19 and the user has no entry for the UTC date.              *)
(***************************************************************************)
C10_EmptyZoneEvaluatedAsUTC ==
    EligibilityDecided =>
        \A sub \in push_subscriptions :
            sub.timezone = "" =>
                (sub \in Attempted <=>
                    /\ runAt % 24 = 19
                    /\ ~\E e \in entries :
                          e.user_id = sub.user_id /\ e.date = runAt \div 24)

\* a subscription with an empty time zone is a recipient
C10_Witness ==
    /\ pc = "sending"
    /\ \E sub \in Attempted : sub.timezone = ""

(***************************************************************************)
(* C11.  Eligibility is idempotent: an invocation repeated at the same     *)
(* clock reading against the same store determines exactly the recipients  *)
(* the invocation before it determined, and between invocations nothing of *)
(* the handler's variables is left that a later invocation could read.     *)
(***************************************************************************)
C11_Idempotent ==
    /\ (EligibilityDecided /\ prevRun.decided) => Attempted = prevRun.recipients
    /\ pc = "idle" =>
          /\ locals = <<<<>>, <<>>, <<>>, <<>>, <<>>, <<>>, <<>>, <<>>>>
          /\ response = NoResponse

\* a second invocation at the clock reading of the first has determined its
\* recipients again, and there are some
C11_Witness ==
    /\ pc = "sending"
    /\ prevRun.decided
    /\ prevRun.recipients # {}
    /\ Attempted # {}

(***************************************************************************)
(* C12.  The dispatcher is read-only on the store and stateless: no step   *)
(* of an invocation, whatever the outcome of its queries and deliveries,   *)
(* changes a row of push_subscriptions or entries, and an invocation       *)
(* begins with none of the handler's variables holding anything of an      *)
(* earlier one.                                                            *)
(***************************************************************************)
C12_ReadOnlyStateless ==
    [][/\ push_subscriptions' = push_subscriptions
       /\ entries' = entries
       /\ (pc = "idle" /\ pc' # "idle") =>
             /\ locals = <<<<>>, <<>>, <<>>, <<>>, <<>>, <<>>, <<>>, <<>>>>
             /\ response = NoResponse
             /\ runAt = NotRunning]_vars

\* an invocation after an earlier one has ended with one delivery accepted
\* and one answered with a non-2xx status, and the rows are still there
C12_Witness ==
    /\ pc = "done"
    /\ prev # NoFailure
    /\ \E i \in DOMAIN tasks : faults[i] = "not_ok"
    /\ \E i \in DOMAIN tasks : tasks[i] = "true"
    /\ Attempted \subseteq push_subscriptions

(***************************************************************************)
(* C13.  Deliveries of one invocation are independent: whatever the other  *)
(* recipients' deliveries are doing, a hung POST among them included, the  *)
(* next step of a recipient's delivery can be taken, so its POST is issued *)
(* and every answer to it can be received.                                 *)
(***************************************************************************)
C13_HungPostBlocksNobody ==
    pc = "sending" =>
        \A j \in DOMAIN tasks :
            /\ tasks[j] = "sign" => ENABLED VapidResult(j, TRUE)
            /\ tasks[j] = "encrypt" => ENABLED EncryptResult(j, TRUE)
            /\ tasks[j] = "fetch" =>
                  \A outcome \in FetchOutcomes : ENABLED FetchResult(j, outcome)

\* the POST to the first recipient is unanswered while a later recipient's
\* POST was issued and accepted
C13_Witness ==
    /\ pc = "sending"
    /\ \E i, j \in DOMAIN tasks :
          /\ i < j
          /\ tasks[i] = "fetch"
          /\ tasks[j] = "true"
          /\ posts[j] = 1

(***************************************************************************)
(* C14.  Every call of encryptPayload draws a new key pair and a new salt: *)
(* no two messages, of one invocation or of different invocations, were    *)
(* encrypted with the same server key or the same salt.                    *)
(***************************************************************************)
C14_FreshKeyAndSalt ==
    \A m, n \in DOMAIN messages :
        m # n => /\ messages[m].serverPublicKey # messages[n].serverPublicKey
                 /\ messages[m].salt # messages[n].salt

\* two messages of this invocation and one of an earlier invocation
C14_Witness ==
    /\ pc = "sending"
    /\ Cardinality(DOMAIN requests) = 2
    /\ Len(messages) > 2

(***************************************************************************)
(* C15.  Every POST that was issued has a request whose Crypto-Key dh= and *)
(* Encryption salt= are the server public key and the salt its own body    *)
(* was encrypted with, whose Content-Encoding is aesgcm, and which carries *)
(* the VAPID Authorization value, p256ecdsa= the VAPID public key, TTL     *)
(* 86400 and Content-Type application/octet-stream; no header is missing   *)
(* and neither key nor salt is that of another recipient's request.        *)
(***************************************************************************)
C15_HeadersMatchBody ==
    "requests" \in record =>
        \A i \in DOMAIN posts :
            posts[i] > 0 =>
                /\ i \in DOMAIN requests
                /\ LET r == requests[i]
                       sub == usersToNotify[i]
                       key == base64UrlDecode(r.headers.CryptoKey.dh)[2]
                       salt == base64UrlDecode(r.headers.Encryption.salt)
                   IN /\ r.method = "POST"
                      /\ r.url = sub.endpoint
                      /\ DOMAIN r.headers =
                            {"Authorization", "TTL", "ContentType", "ContentEncoding",
                             "CryptoKey", "Encryption"}
                      /\ r.body = encryptPayload(sub.p256dh, sub.auth, ReminderText,
                                                 key, salt).encrypted
                      /\ r.headers.ContentEncoding = "aesgcm"
                      /\ r.headers.Authorization.scheme = "vapid"
                      /\ r.headers.Authorization.k = VAPID_PUBLIC_KEY
                      /\ r.headers.Authorization.t[5] =
                            base64UrlEncode(<<"ecdsa", VAPID_PRIVATE_KEY,
                                              SubSeq(r.headers.Authorization.t, 1, 3)>>)
                      /\ r.headers.CryptoKey.p256ecdsa = VAPID_PUBLIC_KEY
                      /\ r.headers.TTL = "86400"
                      /\ r.headers.ContentType = "application/octet-stream"
                      /\ \A j \in DOMAIN requests :
                            j # i =>
                              /\ requests[j].headers.CryptoKey.dh # r.headers.CryptoKey.dh
                              /\ requests[j].headers.Encryption.salt
                                    # r.headers.Encryption.salt

\* two POSTs of one invocation, to subscriptions with different browser keys
C15_Witness ==
    /\ pc = "sending"
    /\ \A i \in 1..2 : i \in DOMAIN posts /\ posts[i] = 1 /\ i \in DOMAIN requests
    /\ usersToNotify[1].p256dh # usersToNotify[2].p256dh

(***************************************************************************)
(* C17.  The aud claim of the VAPID token of every request is the scheme   *)
(* and host of the endpoint that request is sent to, without the path:     *)
(* endpoints that differ only in path get the same audience, and a request *)
(* to another push service gets that service's audience.                   *)
(***************************************************************************)
\* scheme and host (with port) of the endpoints, written out
Origin(endpoint) ==
    IF endpoint = OtherHostEndpoint
    THEN <<"http:", "//", "updates.example:8443">>
    ELSE <<"https:", "//", "push.example">>

TokenClaims(request) == base64UrlDecode(request.headers.Authorization.t[3])[2]

C17_AudienceIsSchemeAndHost ==
    \A i \in DOMAIN requests :
        /\ requests[i].url = usersToNotify[i].endpoint
        /\ TokenClaims(requests[i]).aud = Origin(usersToNotify[i].endpoint)
        /\ \A j \in DOMAIN requests :
              URL(requests[i].url).host = URL(requests[j].url).host
                  => TokenClaims(requests[i]).aud = TokenClaims(requests[j]).aud

\* one invocation sends to two endpoints of one push service that differ in
\* path only
C17_Witness ==
    /\ pc = "sending"
    /\ DOMAIN requests = {1, 2}
    /\ {requests[1].url, requests[2].url} = {GoodEndpoint, OtherPathEndpoint}

\* one invocation sends to two push services
C17_WitnessTwoServices ==
    /\ pc = "sending"
    /\ DOMAIN requests = {1, 2}
    /\ TokenClaims(requests[1]).aud # TokenClaims(requests[2]).aud

(***************************************************************************)
(* C16.  Round trip of encryptPayload: decrypting what it returned with    *)
(* the receiver's side of the aesgcm content coding (same shared secret,   *)
(* the returned salt and server public key, the auth secret) and removing  *)
(* the two-byte padding length gives the bytes of the plaintext.           *)
(***************************************************************************)
C16_RoundTrip ==
    roundTrip.stage = "decrypted" =>
        roundTrip.recovered = TextEncode(roundTrip.payload)

(***************************************************************************)
(* C18.  After any sequence of enable operations the store holds at most   *)
(* one push subscription per user: an upsert that succeeds leaves exactly  *)
(* the other users' rows and the new row, so a row the user already had is *)
(* replaced; and the recipients of an invocation are of distinct users,    *)
(* with at most one POST each.                                             *)
(***************************************************************************)
C18_OneSubscriptionPerUser ==
    /\ [](/\ UniqueUserId(push_subscriptions)
          /\ \A i, j \in DOMAIN usersToNotify :
                usersToNotify[i].user_id = usersToNotify[j].user_id => i = j
          /\ \A i \in DOMAIN posts : posts[i] <= 1)
    /\ [][(clientPc.op = "upsert" /\ clientPc' = AwaitingNothing
             /\ notificationsEnabled' /\ lastAlert' = "Daily reminders enabled!")
          => /\ clientPc.row \in push_subscriptions'
             /\ \A r \in push_subscriptions' :
                   r.user_id = clientPc.row.user_id => r = clientPc.row
             /\ \A r \in SubscriptionRows \cup PushRows :
                   r.user_id # clientPc.row.user_id
                       => (r \in push_subscriptions' <=> r \in push_subscriptions)]_vars

\* a user whose row is in the store enables reminders again from a new
\* browser subscription, while the other user has a row as well
C18_Witness ==
    /\ clientPc.op = "upsert"
    /\ \E r \in push_subscriptions :
          r.user_id = clientPc.row.user_id /\ r.endpoint # clientPc.row.endpoint
    /\ \E r \in push_subscriptions : r.user_id # clientPc.row.user_id

\* both users enabled reminders and an invocation has issued their POSTs
C18_WitnessPosts ==
    /\ pc = "sending"
    /\ Len(usersToNotify) = 2
    /\ \A i \in DOMAIN posts : posts[i] = 1

(***************************************************************************)
(* C19.  When unsubscribeFromNotifications completes with                  *)
(* notificationsEnabled false and the alert 'Daily reminders disabled.',   *)
(* no row of that user is in the store; in particular it does not report   *)
(* so when the delete failed.                                              *)
(***************************************************************************)
C19_DisabledMeansNoRow ==
    [][(/\ clientPc.op = "delete"
        /\ clientPc' = AwaitingNothing
        /\ ~notificationsEnabled'
        /\ lastAlert' = "Daily reminders disabled.")
       => \A r \in push_subscriptions' : r.user_id # clientPc.user_id]_vars

(***************************************************************************)
(* C20.  After any sequence of saves the store holds at most one entry per *)
(* user and date: a save that succeeds leaves the saved entry as the only  *)
(* one of its user and date, and every entry of another date or another    *)
(* user as it was.                                                         *)
(***************************************************************************)
SameDay(e1, e2) == e1.user_id = e2.user_id /\ e1.date = e2.date

C20_OneEntryPerUserAndDate ==
    /\ [](\A e1, e2 \in entries : SameDay(e1, e2) => e1 = e2)
    /\ [][(clientPc.op = "save" /\ lastAlert' = "Entry saved!"
             /\ clientPc' = AwaitingNothing)
          => /\ clientPc.entry \in entries'
             /\ \A e \in entries' : SameDay(e, clientPc.entry) => e = clientPc.entry
             /\ {e \in entries' : ~SameDay(e, clientPc.entry)}
                   = {e \in entries : ~SameDay(e, clientPc.entry)}]_vars

\* a user saves again on a date they have an entry for, with another answer,
\* while the store holds an entry of theirs of another date and an entry of
\* the other user
C20_Witness ==
    /\ clientPc.op = "save"
    /\ \E e \in entries : SameDay(e, clientPc.entry) /\ e.mood # clientPc.entry.mood
    /\ \E e \in entries : e.user_id = clientPc.entry.user_id
                           /\ e.date # clientPc.entry.date
    /\ \E e \in entries : e.user_id # clientPc.entry.user_id

(***************************************************************************)
(* The same function on a clock that moves while the handler runs.  Every  *)
(* call of getLocalHour and of getLocalDate makes its own new Date(): the  *)
(* readings of one invocation are nondecreasing and at most MaxDrift hours *)
(* after the clock the subscriptions query returned at.  The store holds   *)
(* subscriptions of two zones whose reminder hour is the same instant.     *)
(***************************************************************************)
MaxDrift == 1

Min(a, b) == IF a <= b THEN a ELSE b

\* the readings of new Date() made for n rows: n by getLocalHour in the
\* filter, then up to n by getLocalDate in the grouping loop
ClockReadings(n) ==
    {reads \in [1..(2 * n) -> now..Min(now + MaxDrift, MaxNow)] :
        \A i, j \in 1..(2 * n) : i < j => reads[i] <= reads[j]}

SubscriptionsResultSlow(data, subError, reads) ==
    FilterAndGroup(data, subError,
                   [i \in DOMAIN data |-> reads[i]],
                   [i \in DOMAIN data |-> reads[Len(data) + i]])

ClockRows ==
    [user_id : Users, endpoint : {GoodEndpoint},
     p256dh : {base64UrlEncode(PublicKeyRaw(k)) : k \in ClientKeyPairs},
     auth : {base64UrlEncode(AuthSecret(1))},
     timezone : {"Pacific/Tongatapu", "Pacific/Pago_Pago"}]

InitClock ==
    /\ now = StartHour
    /\ env = EnvNames
    /\ push_subscriptions \in {rows \in SUBSET ClockRows : UniqueUserId(rows)}
    /\ entries \in {rows \in SUBSET EntryRows : Cardinality(rows) <= 1}
    /\ record = {}
    /\ Idle
    /\ DispatcherOnly

NextClock ==
    \/ Tick
    \/ Invoke
    \/ \E data \in Orderings(push_subscriptions), subError \in BOOLEAN :
           \E reads \in ClockReadings(Len(data)) :
               SubscriptionsResultSlow(data, subError, reads)
    \/ \E entriesError \in BOOLEAN : EntriesResult(entriesError)
    \/ \E i \in 1..Cardinality(Users), ok \in BOOLEAN : VapidResult(i, ok)
    \/ \E i \in 1..Cardinality(Users), ok \in BOOLEAN : EncryptResult(i, ok)
    \/ \E i \in 1..Cardinality(Users), outcome \in FetchOutcomes :
           FetchResult(i, outcome)
    \/ Respond
    \/ Return

SpecClock == InitClock /\ [][NextClock]_vars

\* C21: within one invocation the hour of the filter and the date of the
\* grouping of every subscription are those of one instant t of the
\* invocation: the rows kept are the rows in their reminder hour at t, and
\* the date groups are their local dates at t.
C21_OneInstant ==
    [][(pc = "fetch_subs" /\ subscriptions' # <<>>
            /\ (pc' = "query_entries" \/ response' = NoUsersInHourResponse))
        => \E t \in runAt..now' :
              /\ eligibleSubs' =
                     SelectSeq(subscriptions', LAMBDA sub : InReminderHour(sub, t))
              /\ pc' = "query_entries"
                     => subsByLocalDate' = GroupByLocalDate(eligibleSubs', t, <<>>)]_vars

(***************************************************************************)
(* C22.  No response exists while a delivery of the invocation is pending; *)
(* the summary holds one outcome for every recipient, each the outcome of  *)
(* that recipient's own delivery, and sent counts the deliveries that      *)
(* succeeded: neither depends on the order in which deliveries completed.  *)
(***************************************************************************)
C22_SummaryAfterAllSettled ==
    /\ response # NoResponse => \A i \in DOMAIN tasks : Settled(tasks[i])
    /\ response.kind = "summary" =>
          /\ DOMAIN response.results = DOMAIN tasks
          /\ \A i \in DOMAIN tasks :
                /\ response.results[i].user_id = usersToNotify[i].user_id
                /\ response.results[i].success = (tasks[i] = "true")
          /\ response.sent = Cardinality({i \in DOMAIN tasks : tasks[i] = "true"})

\* the summary of two deliveries, one delivered and one failed
C22_Witness ==
    /\ response.kind = "summary"
    /\ Len(tasks) = 2
    /\ \E i, j \in DOMAIN tasks : tasks[i] = "true" /\ tasks[j] = "false"

\* the later recipient's delivery completed while the first was pending
C22_WitnessOutOfOrder ==
    /\ pc = "sending"
    /\ Len(tasks) = 2
    /\ Settled(tasks[2])
    /\ ~Settled(tasks[1])
    /\ response = NoResponse

\* the entries queries the invocation has issued so far, in order
EntriesQueriesIssued == SelectSeq(queries, LAMBDA q : q.table = "entries")

\* the local date of a subscription at the instant of the invocation
LocalDateOf(sub) == getLocalDate(TimezoneOrUTC(sub), runAt)

\* the local dates in play among the rows that passed the hour filter
DatesInPlay == {LocalDateOf(sub) : sub \in Range(eligibleSubs)}

(***************************************************************************)
(* C23.  As claimed: an invocation that ends has issued as many entries    *)
(* queries as there are distinct local dates among the rows that passed    *)
(* the hour filter.                                                        *)
(***************************************************************************)
C23_QueriesEqualDates ==
    (pc = "done" /\ eligibleSubs # <<>>) =>
        Len(EntriesQueriesIssued) = Cardinality(DatesInPlay)

(***************************************************************************)
(* C23, amended.  The entries queries of an invocation are for distinct    *)
(* local dates in play, each restricted to its date and to the user_ids of *)
(* the rows of that date; when none of them failed, the invocation issued  *)
(* exactly one per date in play (a failed query ends the invocation, so    *)
(* the queries of the later groups are never issued); and whether a row    *)
(* becomes a recipient depends on the entries of its own user and its own  *)
(* local date alone.                                                       *)
(***************************************************************************)
C23_OneQueryPerDateGroup ==
    eligibleSubs # <<>> =>
        LET issued == EntriesQueriesIssued
        IN /\ \A i, j \in DOMAIN issued : i # j => issued[i].date # issued[j].date
           /\ \A i \in DOMAIN issued :
                 /\ issued[i].date \in DatesInPlay
                 /\ issued[i].user_ids =
                        {sub.user_id : sub \in {r \in Range(eligibleSubs) :
                                                  LocalDateOf(r) = issued[i].date}}
           /\ Len(issued) <= Cardinality(DatesInPlay)
           /\ (pc \in {"sending", "done"}
                 /\ \A i \in DOMAIN issued : issued[i].state = "ok")
                 => Len(issued) = Cardinality(DatesInPlay)
           /\ pc = "sending" =>
                 \A sub \in Range(eligibleSubs) :
                     sub \in Range(usersToNotify)
                        <=> ~\E e \in entries : /\ e.user_id = sub.user_id
                                                /\ e.date = LocalDateOf(sub)

\* two rows of one local date were covered by one query, and the entry of a
\* user of another date did not count
C23_Witness ==
    /\ pc = "sending"
    /\ Len(eligibleSubs) = 2
    /\ Len(EntriesQueriesIssued) = 1
    /\ Cardinality(EntriesQueriesIssued[1].user_ids) = 2

\* two rows of two local dates: two queries, and the user who logged for the
\* other row's date is a recipient
C23_WitnessTwoDates ==
    /\ pc = "sending"
    /\ Len(EntriesQueriesIssued) = 2
    /\ \E sub \in Range(usersToNotify), e \in entries :
          /\ e.user_id = sub.user_id
          /\ e.date # LocalDateOf(sub)
          /\ e.date \in DatesInPlay

\* the HMAC whose output keyed the expansion that produced okm: the prk of hkdf
ExtractOf(okm) == okm[2][2]

\* HMAC-SHA-256 keyed by the subscriber's auth secret over the ECDH shared
\* secret, expanded with the "auth" info to 32 bytes
AuthKeyedPrk(clientKeyPair, clientAuth, serverPublicKey) ==
    LET sharedSecret == deriveBits(serverPublicKey, PrivateKey(clientKeyPair))
        extracted == HmacSign(clientAuth, sharedSecret)
        authInfo == TextEncode("Content-Encoding: auth\\0")
    IN Slice(HmacSign(extracted, concat(<<authInfo, Bytes(<<1>>)>>)), 32)

(***************************************************************************)
(* C24.  In the key schedule of an encrypted message the first             *)
(* pseudo-random key is extracted by HMAC keyed by the auth secret over    *)
(* the shared secret, and the content-encryption key and the nonce are     *)
(* expanded from HMAC keyed by the message's salt over that key: in no     *)
(* extraction are key and message swapped.                                 *)
(***************************************************************************)
C24_ExtractKeyedBySalt ==
    roundTrip.stage = "encrypted" =>
        LET contentKey == roundTrip.message.encrypted[2]
            nonce == roundTrip.message.encrypted[3]
            prk == AuthKeyedPrk(roundTrip.clientKeyPair, roundTrip.clientAuth,
                                roundTrip.message.serverPublicKey)
        IN /\ ExtractOf(contentKey) = HmacSign(roundTrip.message.salt, prk)
           /\ ExtractOf(nonce) = HmacSign(roundTrip.message.salt, prk)

(***************************************************************************)
(* The same function under a scheduler that triggers it at most once per   *)
(* clock hour, with the recorder of the schedule on: kept are the hour of  *)
(* the latest invocation, whether an hour went by without one, and the     *)
(* calls of sendWebPush per user and local date.  The subscriptions are of *)
(* two zones with different reminder instants and of an unresolvable zone. *)
(***************************************************************************)
ScheduleRows ==
    [user_id : Users, endpoint : {GoodEndpoint},
     p256dh : {base64UrlEncode(PublicKeyRaw(k)) : k \in ClientKeyPairs},
     auth : {base64UrlEncode(AuthSecret(1))},
     timezone : {"Pacific/Tongatapu", "UTC", InvalidZone}]

InitSchedule ==
    /\ now = StartHour
    /\ env = EnvNames
    /\ push_subscriptions \in {rows \in SUBSET ScheduleRows : UniqueUserId(rows)}
    /\ entries \in {rows \in SUBSET EntryRows : Cardinality(rows) <= 1}
    /\ record = {"schedule"}
    /\ Idle
    /\ DispatcherOnly

SpecSchedule == InitSchedule /\ [][Next]_vars

\* the user of sub has an entry dated d
Logged(sub, d) == \E e \in entries : e.user_id = sub.user_id /\ e.date = d

\* the reminder hour of sub's local date d has come, and the invocation of
\* that clock hour, if there was one, has finished
ReminderHourServed(sub, d) ==
    \E t \in StartHour..now :
        /\ InReminderHour(sub, t)
        /\ getLocalDate(TimezoneOrUTC(sub), t) = d
        /\ t < now \/ (invokedAt = now /\ pc = "idle")

SaveRows ==
    [user_id : Users, endpoint : {GoodEndpoint},
     p256dh : {base64UrlEncode(PublicKeyRaw(k)) : k \in ClientKeyPairs},
     auth : {base64UrlEncode(AuthSecret(1))},
     timezone : {"Pacific/Tongatapu"}]

InitSave ==
    /\ now = StartHour + 1
    /\ env = EnvNames
    /\ push_subscriptions \in {rows \in SUBSET SaveRows : UniqueUserId(rows)}
    /\ entries = {}
    /\ record = {}
    /\ Idle
    /\ roundTrip = NoRoundTrip
    /\ ViewsBlank
    /\ user \in Users
    /\ notificationsEnabled \in BOOLEAN
    /\ browserSubscription = NoSubscription
    /\ lastAlert = ""
    /\ clientPc = AwaitingNothing
    /\ deviceZone = "Pacific/Tongatapu"

NextSave ==
    \/ Invoke
    \/ \E data \in Orderings(push_subscriptions), subError \in BOOLEAN :
           SubscriptionsResult(data, subError)
    \/ \E entriesError \in BOOLEAN : EntriesResult(entriesError)
    \/ \E i \in 1..Cardinality(Users), ok \in BOOLEAN : VapidResult(i, ok)
    \/ \E i \in 1..Cardinality(Users), ok \in BOOLEAN : EncryptResult(i, ok)
    \/ \E i \in 1..Cardinality(Users), outcome \in FetchOutcomes :
           FetchResult(i, outcome)
    \/ Respond
    \/ Return
    \/ \E mood \in Moods : SetMood(mood)
    \/ SubmitStart
    \/ \E error \in BOOLEAN : SubmitResult(error)

SpecSave == InitSave /\ [][NextSave]_vars

(***************************************************************************)
(* C26.  A POST is issued only for a user who, at the moment it is issued, *)
(* has no entry for their local date in the store: an entry saved after    *)
(* the entries query and before the send suppresses the reminder.          *)
(***************************************************************************)
C26_NoPostForLoggedUser ==
    [][\A i \in DOMAIN posts \cap DOMAIN posts' :
          posts'[i] = posts[i] + 1
             => ~Logged(usersToNotify[i], LocalDateOf(usersToNotify[i]))]_vars

(***************************************************************************)
(* Sessions: users of one browser sign in, fill in and save the form, sign *)
(* out or lose their session, while the store answers the loadEntries      *)
(* queries whenever it does, also after the session that asked has ended.  *)
(***************************************************************************)
NextSession ==
    \/ \E u \in Users : SignIn(u)
    \/ SignOut
    \/ SessionEnds
    \/ \E u \in loading, error \in BOOLEAN : LoadEntriesResult(u, error)
    \/ \E mood \in Moods : SetMood(mood)
    \/ SubmitStart
    \/ \E error \in BOOLEAN : SubmitResult(error)

SpecSession == Deployed /\ [][NextSession]_vars

(***************************************************************************)
(* C28.  Whenever no user is signed in the client holds no data of a       *)
(* previous user: entries is empty, todayEntry is null and formData is     *)
(* blank, after any sequence of sign-in, session change, load (also one in *)
(* flight at sign-out) and sign-out.                                       *)
(***************************************************************************)
C28_NothingLeftWhenSignedOut ==
    user = NoUser =>
        /\ entriesState = <<>>
        /\ todayEntry = NoTodayEntry
        /\ formData = BlankForm

(***************************************************************************)
(* A day of one user: user A, signed in on a device in one of two zones    *)
(* and subscribed with the zone the device had then, fills in and saves    *)
(* the form, travels, and the function is invoked as the hours pass.  An   *)
(* invocation begins when the client awaits nothing, and the client acts   *)
(* when no invocation is in progress.                                      *)
(***************************************************************************)
DayRows ==
    [user_id : {"A"}, endpoint : {GoodEndpoint},
     p256dh : {base64UrlEncode(PublicKeyRaw(k)) : k \in ClientKeyPairs},
     auth : {base64UrlEncode(AuthSecret(1))},
     timezone : DeviceZones]

InitDay ==
    /\ now = StartHour
    /\ env = EnvNames
    /\ push_subscriptions \in {{row} : row \in DayRows}
    /\ entries = {}
    /\ record = {}
    /\ Idle
    /\ roundTrip = NoRoundTrip
    /\ ViewsBlank
    /\ user = "A"
    /\ notificationsEnabled = TRUE
    /\ browserSubscription = GoodEndpoint
    /\ lastAlert = "Daily reminders enabled!"
    /\ clientPc = AwaitingNothing
    /\ deviceZone \in DeviceZones

ClientDayStep ==
    \/ \E zone \in DeviceZones : Travel(zone)
    \/ \E mood \in Moods : SetMood(mood)
    \/ SubmitStart
    \/ \E error \in BOOLEAN : SubmitResult(error)
    \/ \E u \in loading, error \in BOOLEAN : LoadEntriesResult(u, error)

NextDay ==
    \/ clientPc = AwaitingNothing /\ loading = {} /\ Next
    \/ pc = "idle" /\ ClientDayStep

SpecDay == InitDay /\ [][NextDay]_vars

\* the rows of the signed-in user whose stored zone is the zone of the device
OwnRowsOfDeviceZone ==
    {sub \in push_subscriptions : sub.user_id = user /\ sub.timezone = deviceZone}

PageLoad ==
    /\ clientPc = AwaitingNothing
    /\ notificationsEnabled' = (browserSubscription # NoSubscription)
    /\ entriesState' = <<>>
    /\ todayEntry' = NoTodayEntry
    /\ formData' = BlankForm
    /\ loading' = IF user # NoUser THEN {user} ELSE {}
    /\ UNCHANGED <<dispatcher, push_subscriptions, entries, user,
                   browserSubscription, lastAlert, clientPc, deviceZone, streaks>>

NextNotifications ==
    \/ ClientReminderStep
    \/ PageLoad

SpecNotifications == Deployed /\ [][NextNotifications]_vars

\* the store holds a push subscription of the signed-in user
RowOfUser == \E r \in push_subscriptions : r.user_id = user

(***************************************************************************)
(* C29.  When no operation of the client is in progress, the flag          *)
(* notificationsEnabled is true only if the store holds a push             *)
(* subscription of the signed-in user, and the browser has a push          *)
(* subscription only if the store holds such a row.                        *)
(***************************************************************************)
C29_FlagAgreesWithStore ==
    clientPc = AwaitingNothing =>
        /\ notificationsEnabled => RowOfUser
        /\ browserSubscription # NoSubscription => RowOfUser

(***************************************************************************)
(* getStreak on its own: the entries of the client are any list of at most *)
(* MaxStreakEntries rows of distinct dates, in any order, one habit true,  *)
(* false or null and another true or false; the statistics are shown.      *)
(***************************************************************************)
MaxStreakEntries == 3
MaxStreakDate == 2

StreakRows ==
    [user_id : {"A"}, date : 0..MaxStreakDate,
     exercise : {"true", "false", "null"}, outside : {"true", "false"}]

\* UNIQUE(user_id, date): the rows of one user are of distinct dates
DistinctDates(list) ==
    \A i, j \in DOMAIN list : list[i].date = list[j].date => i = j

\* the lists of n rows of distinct dates, in every order
StreakLists(n) == {list \in [1..n -> StreakRows] : DistinctDates(list)}

\* Array.prototype.sort with (a, b) => new Date(b.date) - new Date(a.date):
\* a stable sort, the later date first
RECURSIVE InsertSorted(_, _)
InsertSorted(sorted, entry) ==
    IF sorted = <<>> THEN <<entry>>
    ELSE IF Head(sorted).date >= entry.date
         THEN <<Head(sorted)>> \o InsertSorted(Tail(sorted), entry)
         ELSE <<entry>> \o sorted

RECURSIVE SortStable(_)
SortStable(list) ==
    IF list = <<>> THEN <<>>
    ELSE InsertSorted(SortStable(SubSeq(list, 1, Len(list) - 1)), list[Len(list)])

\* Variant of sortedEntries: the entries in the order they are stored in.
entriesAsStored == entriesState

\* const sortedEntries = [...entries].sort(...)
sortedEntries == SortStable(entriesState)

\* the for loop of getStreak: streak++ while entry[field] === true
RECURSIVE CountLeading(_, _)
CountLeading(list, field) ==
    IF list = <<>> THEN 0
    ELSE IF Head(list)[field] = "true"
         THEN 1 + CountLeading(Tail(list), field)
         ELSE 0

getStreak(field) == CountLeading(sortedEntries, field)

\* the statistics are rendered: {getStreak('exercise')}, {getStreak('outside')}
ShowStats ==
    /\ streaks' = [field \in Fields |-> getStreak(field)]
    /\ UNCHANGED <<dispatcher, push_subscriptions, entries, user,
                   notificationsEnabled, browserSubscription, lastAlert, clientPc,
                   deviceZone, entriesState, todayEntry, formData, loading>>

InitStreak ==
    /\ now = StartHour
    /\ env = EnvNames
    /\ push_subscriptions = {}
    /\ entries = {}
    /\ record = {}
    /\ Idle
    /\ roundTrip = NoRoundTrip
    /\ \E n \in 0..MaxStreakEntries : entriesState \in StreakLists(n)
    /\ todayEntry = NoTodayEntry
    /\ formData = BlankForm
    /\ loading = {}
    /\ streaks = NoStreaks
    /\ user = "A"
    /\ notificationsEnabled = FALSE
    /\ browserSubscription = NoSubscription
    /\ lastAlert = ""
    /\ clientPc = AwaitingNothing
    /\ deviceZone = "UTC"

NextStreak == ShowStats

SpecStreak == InitStreak /\ [][NextStreak]_vars

\* the rows of the entries that are, with every row at least as recent,
\* true in field: the longest run of true from the most recent date back
RecentRun(field) ==
    {e \in Range(entriesState) :
        \A q \in Range(entriesState) : q.date >= e.date => q[field] = "true"}

\* the most recent row of the entries
MostRecent == CHOOSE e \in Range(entriesState) :
                  \A q \in Range(entriesState) : q.date <= e.date

(***************************************************************************)
(* C30.  getStreak(field) is the length of the longest prefix of the       *)
(* entries sorted by date descending in which field is exactly true: 0     *)
(* when there are no entries or the most recent entry's field is false or  *)
(* null, never more than the number of entries, and the same for every     *)
(* order the entries are stored in.                                        *)
(***************************************************************************)
C30_StreakIsRecentRun ==
    \A field \in Fields :
        /\ getStreak(field) = Cardinality(RecentRun(field))
        /\ getStreak(field) <= Len(entriesState)
        /\ entriesState = <<>> => getStreak(field) = 0
        /\ (entriesState # <<>> /\ MostRecent[field] # "true") => getStreak(field) = 0
        /\ streaks # NoStreaks => streaks[field] = getStreak(field)

\* the statistics show a streak of 2 for entries stored oldest first, the
\* oldest of them not true
C30_Witness ==
    /\ streaks["exercise"] = 2
    /\ Len(entriesState) = 3
    /\ entriesState[1].date < entriesState[2].date
    /\ entriesState[2].date < entriesState[3].date
    /\ entriesState[1].exercise # "true"

====
